---- MODULE Spec2Model ----
(***************************************************************************)
(* A model of the broker bridge of fond-of/vnats.go (vnats/bridge.go):     *)
(* the subscription mode policy (patchConsumerConfig), the consumer        *)
(* reconciler (getOrAddConsumer), CreateSubscription and PublishMsg, run   *)
(* against a JetStream broker and a pull/ack worker loop.                  *)
(*                                                                         *)
(* Texts the code takes apart (subjects) are sequences of one-character    *)
(* strings; error values are sequences of text pieces, the formatted       *)
(* arguments being pieces of their own, and the nil error is <<>>.         *)
(***************************************************************************)
EXTENDS Integers, Sequences, FiniteSets, TLC

VARIABLES
  consumers,    \* broker: the ConsumerInfo records of all durable consumers
  last,         \* the last CreateSubscription call: arguments, broker calls, result
  nCalls,       \* number of CreateSubscription calls made so far
  createdWith,  \* history: for each consumer ever created, the mode requested then
  polConfig,    \* policy run: the ConsumerConfig handed to patchConsumerConfig
  polMode,      \* policy run: the mode handed to patchConsumerConfig
  polResult,    \* policy run: the ConsumerConfig after patchConsumerConfig
  polStage,     \* policy run: "idle", "input" before the call, "patched" after it
  streamMsgs,   \* broker: the messages stored in the stream, in stream order
  dedupWindow,  \* broker: the msgIDs stored within the current dedup window
  ackPending,   \* broker: stream sequences delivered and not yet acknowledged
  redeliver,    \* broker: stream sequences waiting for redelivery, oldest first
  cursor,       \* broker: the last stream sequence delivered for the first time
  acked,        \* broker: stream sequences acknowledged
  wstate,       \* worker -> "start", "subscribed" or "failed" (CreateSubscription erred)
  wsub,         \* worker -> the subscription it holds (NoSubscription: none)
  inbox,        \* worker -> the fetched batch not yet settled, in batch order
  outcome,      \* worker -> what the handler returned for the head of the batch
  handled,      \* history: the handler invocations, in order
  published,    \* history: the messages whose PublishMsg returned no error
  lastPub,      \* the last PublishMsg call
  nPub,         \* number of PublishMsg calls made so far
  nFail,        \* number of handler failures so far
  rpc,          \* race: process -> "start", "looked", "reconciled", "done" or "failed"
  rreq,         \* race: process -> the subject and mode of its CreateSubscription
  rlook,        \* race: process -> what its ConsumerInfo lookup returned
  rres,         \* race: process -> the result of its call so far
  rorder,       \* race history: the processes in the order they left getOrAddConsumer
  streams,      \* broker: the StreamInfo records of all streams
  lastStream,   \* the last GetOrAddStream call: argument, broker calls, result
  nStreamCalls  \* number of GetOrAddStream calls made so far

reconcileVars == <<consumers, last, nCalls, createdWith>>
policyVars == <<polConfig, polMode, polResult, polStage>>
brokerVars == <<streamMsgs, dedupWindow>>
consumerVars == <<ackPending, redeliver, cursor, acked>>
workerVars == <<wstate, wsub, inbox, outcome, handled, nFail>>
publishVars == <<published, lastPub, nPub>>
deliveryVars == <<brokerVars, consumerVars, workerVars, publishVars>>

raceVars == <<rpc, rreq, rlook, rres, rorder>>
streamVars == <<streams, lastStream, nStreamCalls>>
scenarioVars == <<raceVars, streamVars>>

vars == <<reconcileVars, policyVars, deliveryVars, scenarioVars>>

(***************************************************************************)
(* Bounds                                                                  *)
(***************************************************************************)
MaxCalls == 3
MaxMode == 2
MaxSubjectLen == 3
ModeSpan == 4
MaxPrior == 3
MaxPublish == 2
MaxFailures == 1

(***************************************************************************)
(* Program constants                                                       *)
(***************************************************************************)
MultipleInstances == 0

SingleInstanceMessagesInOrder == 1

AckWaitSeconds == 30

AckExplicitPolicy == "AckExplicit"

Nil == << >>

NoConsumer == [Stream |-> << >>, Name |-> "",
               Config |-> [Durable |-> "", AckPolicy |-> "", AckWait |-> 0, MaxAckPending |-> 0]]

NoSubscription == [subject |-> << >>, stream |-> << >>, consumer |-> ""]

ErrConsumerNotFound == <<"nats: ", "consumer not found">>

ErrTimeout == <<"nats: ", "timeout">>

ErrRejected == <<"nats: ", "maximum consumers limit reached">>

ErrNameInUse == <<"nats: ", "consumer name already in use">>

DriftText == " SubscriptionMode has changed. Please use the existing SubscriptionMode="

(***************************************************************************)
(* Input sets                                                              *)
(***************************************************************************)
Modes == 0..MaxMode

\* The broker call of a CreateSubscription that fails for a reason of the
\* broker's or the transport's own ("none": every call is answered).
Faults == {"none", "lookup", "add", "pull"}

ConsumerNames == {"C", "D"}

Subjects == { <<"o", ".", "c">>, <<"o", ".", "x">>, <<"p">> }

Alphabet == {"o", "c", "."}

AllSubjects == UNION { [1..n -> Alphabet] : n \in 0..MaxSubjectLen }

(***************************************************************************)
(* Text helpers                                                            *)
(***************************************************************************)
Digit(n) == <<"0", "1", "2", "3", "4", "5", "6", "7", "8", "9">>[n + 1]

\* fmt's %v / %d of an integer: its decimal text.
RECURSIVE Itoa(_)
Itoa(n) ==
  IF n < 0 THEN "-" \o Itoa(0 - n)
  ELSE IF n < 10 THEN Digit(n)
  ELSE Itoa(n \div 10) \o Digit(n % 10)

\* fmt's %s of a text kept as a sequence of characters.
RECURSIVE Str(_)
Str(chars) == IF chars = << >> THEN "" ELSE Head(chars) \o Str(Tail(chars))

\* strings.Contains(err.Error(), piece), at the granularity of text pieces.
Contains(text, piece) == \E i \in DOMAIN text : text[i] = piece

\* strings.Split(s, sep) for a one-character sep: the pieces between the
\* separators, always at least one piece.
RECURSIVE SplitFrom(_, _, _)
SplitFrom(s, sep, cur) ==
  IF s = << >> THEN << cur >>
  ELSE IF Head(s) = sep THEN << cur >> \o SplitFrom(Tail(s), sep, << >>)
  ELSE SplitFrom(Tail(s), sep, Append(cur, Head(s)))

Split(s, sep) == SplitFrom(s, sep, << >>)

(***************************************************************************)
(* Subscription mode policy                                                *)
(***************************************************************************)
\* The conversion SubscriptionMode(n) of an int: the same integer, typed.
SubscriptionMode(n) == n

\* The default branch setting 1: an unknown mode is treated as the ordered one.
patchConsumerConfig_DefaultOrdered(config, mode) ==
  CASE mode = MultipleInstances -> [config EXCEPT !.MaxAckPending = 0]
    [] mode = SingleInstanceMessagesInOrder -> [config EXCEPT !.MaxAckPending = 1]
    [] OTHER -> [config EXCEPT !.MaxAckPending = 1]

\* The values of the two named modes exchanged.
patchConsumerConfig_Swapped(config, mode) ==
  CASE mode = MultipleInstances -> [config EXCEPT !.MaxAckPending = 1]
    [] mode = SingleInstanceMessagesInOrder -> [config EXCEPT !.MaxAckPending = 0]
    [] OTHER -> [config EXCEPT !.MaxAckPending = 0]

\* The SingleInstanceMessagesInOrder case setting 0 like the other two.
patchConsumerConfig_Unordered(config, mode) ==
  CASE mode = MultipleInstances -> [config EXCEPT !.MaxAckPending = 0]
    [] mode = SingleInstanceMessagesInOrder -> [config EXCEPT !.MaxAckPending = 0]
    [] OTHER -> [config EXCEPT !.MaxAckPending = 0]

\* The switch without its default branch: an unknown mode leaves the field as it was.
patchConsumerConfig_NoDefault(config, mode) ==
  CASE mode = MultipleInstances -> [config EXCEPT !.MaxAckPending = 0]
    [] mode = SingleInstanceMessagesInOrder -> [config EXCEPT !.MaxAckPending = 1]
    [] OTHER -> config

patchConsumerConfig(config, mode) ==
  CASE mode = MultipleInstances -> [config EXCEPT !.MaxAckPending = 0]
    [] mode = SingleInstanceMessagesInOrder -> [config EXCEPT !.MaxAckPending = 1]
    [] OTHER -> [config EXCEPT !.MaxAckPending = 0]

(***************************************************************************)
(* The JetStream broker, at the interface the bridge uses                  *)
(***************************************************************************)
JS_ConsumerInfo(cons, stream, durable, fault) ==
  IF fault THEN [ci |-> NoConsumer, err |-> ErrTimeout]
  ELSE IF \E c \in cons : c.Stream = stream /\ c.Name = durable
  THEN [ci |-> CHOOSE c \in cons : c.Stream = stream /\ c.Name = durable, err |-> Nil]
  ELSE [ci |-> NoConsumer, err |-> ErrConsumerNotFound]

\* A duplicate add is a no-op when the configuration is the stored one and is
\* rejected when it differs.
JS_AddConsumer(cons, stream, cfg, reject) ==
  LET same == { c \in cons : c.Stream = stream /\ c.Name = cfg.Durable }
      ci == [Stream |-> stream, Name |-> cfg.Durable, Config |-> cfg]
  IN  IF reject THEN [ci |-> NoConsumer, err |-> ErrRejected, consumers |-> cons]
      ELSE IF same = {} THEN [ci |-> ci, err |-> Nil, consumers |-> cons \cup {ci}]
      ELSE IF \E c \in same : c.Config = cfg
      THEN [ci |-> CHOOSE c \in same : c.Config = cfg, err |-> Nil, consumers |-> cons]
      ELSE [ci |-> NoConsumer, err |-> ErrNameInUse, consumers |-> cons]

\* PullSubscribe(subject, durable, Bind(stream, consumer)): binds to an
\* existing consumer, creates none.
JS_PullSubscribe(cons, subject, durable, stream, consumer, fault) ==
  IF fault THEN [sub |-> NoSubscription, err |-> ErrTimeout]
  ELSE IF \E c \in cons : c.Stream = stream /\ c.Name = consumer
  THEN [sub |-> [subject |-> subject, stream |-> stream, consumer |-> consumer], err |-> Nil]
  ELSE [sub |-> NoSubscription, err |-> ErrConsumerNotFound]

\* The record of one broker call, as kept in last.api.
ApiConsumerInfo(stream, durable) ==
  [op |-> "ConsumerInfo", stream |-> stream, consumer |-> durable]

ApiAddConsumer(stream, cfg) ==
  [op |-> "AddConsumer", stream |-> stream, consumer |-> cfg.Durable]

ApiPullSubscribe(stream, consumer) ==
  [op |-> "PullSubscribe", stream |-> stream, consumer |-> consumer]

(***************************************************************************)
(* Consumer reconciler                                                     *)
(***************************************************************************)
\* The kind of the lookup error not told apart: every failed lookup reads as absence.
IsNotFound_Any(err) == TRUE

IsNotFound(err) == Contains(err, "consumer not found")

\* The comparison left out: an existing consumer is reused whatever its mode.
ConfigDrifted_Never(ci, consumerConfig) == FALSE

ConfigDrifted(ci, consumerConfig) ==
  ci.Config.MaxAckPending # consumerConfig.MaxAckPending

\* The message built from the requested configuration instead of the stored one.
DriftError_Requested(ci, consumerConfig) ==
  <<"consumer ", consumerConfig.Durable, DriftText,
    Itoa(SubscriptionMode(consumerConfig.MaxAckPending)), " or delete consumer">>

DriftError(ci, consumerConfig) ==
  <<"consumer ", consumerConfig.Durable, DriftText,
    Itoa(SubscriptionMode(ci.Config.MaxAckPending)), " or delete consumer">>

AddError(durable, streamName, err) ==
  <<"consumer ", durable, " could not be added to stream ", Str(streamName), ": ">> \o err

\* The lookup skipped: every reconciliation issues AddConsumer.
getOrAddConsumer_AlwaysAdd(cons, streamName, consumerConfig, lookupFault, addReject) ==
  LET add == JS_AddConsumer(cons, streamName, consumerConfig, addReject)
  IN  IF add.err # Nil
      THEN [ci |-> NoConsumer,
            err |-> AddError(consumerConfig.Durable, streamName, add.err),
            consumers |-> add.consumers,
            api |-> <<ApiAddConsumer(streamName, consumerConfig)>>]
      ELSE [ci |-> add.ci, err |-> Nil, consumers |-> add.consumers,
            api |-> <<ApiAddConsumer(streamName, consumerConfig)>>]

\* A drifted consumer updated in place to the requested configuration.
getOrAddConsumer_Update(cons, streamName, consumerConfig, lookupFault, addReject) ==
  LET look == JS_ConsumerInfo(cons, streamName, consumerConfig.Durable, lookupFault)
      add == JS_AddConsumer(cons, streamName, consumerConfig, addReject)
      info == ApiConsumerInfo(streamName, consumerConfig.Durable)
      upd == [look.ci EXCEPT !.Config = consumerConfig]
  IN  IF look.err # Nil
      THEN IF ~IsNotFound(look.err)
           THEN [ci |-> NoConsumer, err |-> look.err, consumers |-> cons, api |-> <<info>>]
           ELSE IF add.err # Nil
           THEN [ci |-> NoConsumer,
                 err |-> AddError(consumerConfig.Durable, streamName, add.err),
                 consumers |-> add.consumers,
                 api |-> <<info, ApiAddConsumer(streamName, consumerConfig)>>]
           ELSE [ci |-> add.ci, err |-> Nil, consumers |-> add.consumers,
                 api |-> <<info, ApiAddConsumer(streamName, consumerConfig)>>]
      ELSE IF ConfigDrifted(look.ci, consumerConfig)
      THEN [ci |-> upd, err |-> Nil, consumers |-> (cons \ {look.ci}) \cup {upd},
            api |-> <<info, ApiAddConsumer(streamName, consumerConfig)>>]
      ELSE [ci |-> look.ci, err |-> Nil, consumers |-> cons, api |-> <<info>>]

getOrAddConsumer(cons, streamName, consumerConfig, lookupFault, addReject) ==
  LET look == JS_ConsumerInfo(cons, streamName, consumerConfig.Durable, lookupFault)
      add == JS_AddConsumer(cons, streamName, consumerConfig, addReject)
      info == ApiConsumerInfo(streamName, consumerConfig.Durable)
  IN  IF look.err # Nil
      THEN IF ~IsNotFound(look.err)
           THEN [ci |-> NoConsumer, err |-> look.err, consumers |-> cons, api |-> <<info>>]
           ELSE IF add.err # Nil
           THEN [ci |-> NoConsumer,
                 err |-> AddError(consumerConfig.Durable, streamName, add.err),
                 consumers |-> add.consumers,
                 api |-> <<info, ApiAddConsumer(streamName, consumerConfig)>>]
           ELSE [ci |-> add.ci, err |-> Nil, consumers |-> add.consumers,
                 api |-> <<info, ApiAddConsumer(streamName, consumerConfig)>>]
      ELSE IF ConfigDrifted(look.ci, consumerConfig)
      THEN [ci |-> NoConsumer, err |-> DriftError(look.ci, consumerConfig),
            consumers |-> cons, api |-> <<info>>]
      ELSE [ci |-> look.ci, err |-> Nil, consumers |-> cons, api |-> <<info>>]

(***************************************************************************)
(* CreateSubscription                                                      *)
(***************************************************************************)
\* The last token of the subject taken instead of the first.
StreamNameOf_LastToken(subject) == Split(subject, ".")[Len(Split(subject, "."))]

StreamNameOf(subject) == Split(subject, ".")[1]

\* The configuration without its AckWait: the field is left at its zero value.
NewConsumerConfig_DefaultAckWait(consumerName, mode) ==
  patchConsumerConfig([Durable |-> consumerName, AckPolicy |-> AckExplicitPolicy,
                       AckWait |-> 0, MaxAckPending |-> 0], mode)

\* The call of patchConsumerConfig left out: MaxAckPending keeps its zero value.
NewConsumerConfig_Unpatched(consumerName, mode) ==
  [Durable |-> consumerName, AckPolicy |-> AckExplicitPolicy,
   AckWait |-> AckWaitSeconds, MaxAckPending |-> 0]

NewConsumerConfig(consumerName, mode) ==
  patchConsumerConfig([Durable |-> consumerName, AckPolicy |-> AckExplicitPolicy,
                       AckWait |-> AckWaitSeconds, MaxAckPending |-> 0], mode)

\* The reconciliation's error not checked: the pull subscription is bound anyway.
CreateSubscriptionResult_BindAnyway(cons, subject, consumerName, mode, fault) ==
  LET streamName == StreamNameOf(subject)
      config == NewConsumerConfig(consumerName, mode)
      rec == getOrAddConsumer(cons, streamName, config, fault = "lookup", fault = "add")
      pull == JS_PullSubscribe(rec.consumers, subject, consumerName, streamName, consumerName,
                               fault = "pull")
  IN  [sub |-> pull.sub, err |-> pull.err, rerr |-> rec.err, ci |-> rec.ci,
       consumers |-> rec.consumers,
       api |-> Append(rec.api, ApiPullSubscribe(streamName, consumerName))]

\* What one call computes: the reconciliation, then the pull subscription.
CreateSubscriptionResult(cons, subject, consumerName, mode, fault) ==
  LET streamName == StreamNameOf(subject)
      config == NewConsumerConfig(consumerName, mode)
      rec == getOrAddConsumer(cons, streamName, config, fault = "lookup", fault = "add")
      pull == JS_PullSubscribe(rec.consumers, subject, consumerName, streamName, consumerName,
                               fault = "pull")
  IN  IF rec.err # Nil
      THEN [sub |-> NoSubscription, err |-> rec.err, rerr |-> rec.err, ci |-> rec.ci,
            consumers |-> rec.consumers, api |-> rec.api]
      ELSE IF pull.err # Nil
      THEN [sub |-> NoSubscription, err |-> pull.err, rerr |-> Nil, ci |-> rec.ci,
            consumers |-> rec.consumers,
            api |-> Append(rec.api, ApiPullSubscribe(streamName, consumerName))]
      ELSE [sub |-> pull.sub, err |-> Nil, rerr |-> Nil, ci |-> rec.ci,
            consumers |-> rec.consumers,
            api |-> Append(rec.api, ApiPullSubscribe(streamName, consumerName))]

\* The text of `subject` before its first "." (all of it when it has none).
FirstDot(subject) ==
  IF \E i \in DOMAIN subject : subject[i] = "."
  THEN CHOOSE i \in DOMAIN subject :
         subject[i] = "." /\ \A j \in 1..(i - 1) : subject[j] # "."
  ELSE Len(subject) + 1

TextBeforeFirstDot(subject) == SubSeq(subject, 1, FirstDot(subject) - 1)

NoCall ==
  [called |-> FALSE, subject |-> << >>, consumerName |-> "", mode |-> 0,
   fault |-> "none",
   api |-> << >>, err |-> Nil, rerr |-> Nil, sub |-> NoSubscription, ci |-> NoConsumer,
   pre |-> {}, repeat |-> FALSE]

CreateSubscription(subject, consumerName, mode, fault) ==
  \E r \in { CreateSubscriptionResult(consumers, subject, consumerName, mode, fault) } :
      /\ consumers' = r.consumers
      /\ nCalls' = nCalls + 1
      /\ createdWith' = createdWith \cup
           { [ci |-> c, mode |-> mode] : c \in r.consumers \ consumers }
      /\ last' = [called |-> TRUE, subject |-> subject, consumerName |-> consumerName,
                  mode |-> mode, fault |-> fault, api |-> r.api, err |-> r.err, rerr |-> r.rerr,
                  sub |-> r.sub, ci |-> r.ci, pre |-> consumers,
                  repeat |-> /\ last.called
                             /\ last.rerr = Nil
                             /\ TextBeforeFirstDot(last.subject) = TextBeforeFirstDot(subject)
                             /\ last.consumerName = consumerName
                             /\ last.mode = mode]

(***************************************************************************)
(* Two processes reconciling the same durable consumer                     *)
(***************************************************************************)
Procs == {"p1", "p2"}

\* Both processes subscribe with this consumer name, on subjects of one stream.
RaceConsumer == "C"

RaceSubjects == { <<"o", ".", "c">>, <<"o", ".", "x">> }

NoLookup == [ci |-> NoConsumer, err |-> Nil]

NoRequest == [subject |-> << >>, mode |-> 0]

NoResult == [ci |-> NoConsumer, err |-> Nil, sub |-> NoSubscription]

\* The error of a failed AddConsumer dropped: the caller goes on as if the
\* consumer had been added.
ReconcileAfterLookup_IgnoreAddError(cons, look, streamName, consumerConfig, addReject) ==
  LET add == JS_AddConsumer(cons, streamName, consumerConfig, addReject)
  IN  IF look.err # Nil
      THEN IF ~IsNotFound(look.err)
           THEN [ci |-> NoConsumer, err |-> look.err, consumers |-> cons]
           ELSE [ci |-> add.ci, err |-> Nil, consumers |-> add.consumers]
      ELSE IF ConfigDrifted(look.ci, consumerConfig)
      THEN [ci |-> NoConsumer, err |-> DriftError(look.ci, consumerConfig), consumers |-> cons]
      ELSE [ci |-> look.ci, err |-> Nil, consumers |-> cons]

\* getOrAddConsumer from the point where its lookup has returned `look`, the
\* broker holding `cons` by then: the lookup and the AddConsumer are two
\* broker calls, and another process may act in between.
ReconcileAfterLookup(cons, look, streamName, consumerConfig, addReject) ==
  LET add == JS_AddConsumer(cons, streamName, consumerConfig, addReject)
  IN  IF look.err # Nil
      THEN IF ~IsNotFound(look.err)
           THEN [ci |-> NoConsumer, err |-> look.err, consumers |-> cons]
           ELSE IF add.err # Nil
           THEN [ci |-> NoConsumer,
                 err |-> AddError(consumerConfig.Durable, streamName, add.err),
                 consumers |-> add.consumers]
           ELSE [ci |-> add.ci, err |-> Nil, consumers |-> add.consumers]
      ELSE IF ConfigDrifted(look.ci, consumerConfig)
      THEN [ci |-> NoConsumer, err |-> DriftError(look.ci, consumerConfig), consumers |-> cons]
      ELSE [ci |-> look.ci, err |-> Nil, consumers |-> cons]

\* A process enters CreateSubscription and its ConsumerInfo lookup returns.
RaceLookup(p, subject, mode) ==
  /\ rpc[p] = "start"
  /\ rreq' = [rreq EXCEPT ![p] = [subject |-> subject, mode |-> mode]]
  /\ rlook' = [rlook EXCEPT ![p] =
                 [ci |-> JS_ConsumerInfo(consumers, StreamNameOf(subject), RaceConsumer, FALSE).ci,
                  err |-> JS_ConsumerInfo(consumers, StreamNameOf(subject), RaceConsumer, FALSE).err]]
  /\ rpc' = [rpc EXCEPT ![p] = "looked"]
  /\ UNCHANGED <<rres, rorder>>
  /\ UNCHANGED <<reconcileVars, policyVars, deliveryVars, streamVars>>

\* The process acts on what its lookup returned: AddConsumer, the drift
\* comparison, or the lookup's error; getOrAddConsumer returns.
RaceReconcile(p) ==
  /\ rpc[p] = "looked"
  /\ \E r \in { ReconcileAfterLookup(consumers, rlook[p], StreamNameOf(rreq[p].subject),
                                     NewConsumerConfig(RaceConsumer, rreq[p].mode), FALSE) } :
       /\ consumers' = r.consumers
       /\ createdWith' = createdWith \cup
            { [ci |-> c, mode |-> rreq[p].mode] : c \in r.consumers \ consumers }
       /\ rres' = [rres EXCEPT ![p] = [ci |-> r.ci, err |-> r.err, sub |-> NoSubscription]]
       /\ rpc' = [rpc EXCEPT ![p] = IF r.err = Nil THEN "reconciled" ELSE "failed"]
  /\ rorder' = Append(rorder, p)
  /\ UNCHANGED <<rreq, rlook, last, nCalls>>
  /\ UNCHANGED <<policyVars, deliveryVars, streamVars>>

\* The reconciled process binds its pull subscription; CreateSubscription returns.
RacePullSubscribe(p) ==
  /\ rpc[p] = "reconciled"
  /\ \E r \in { JS_PullSubscribe(consumers, rreq[p].subject, RaceConsumer,
                                 StreamNameOf(rreq[p].subject), RaceConsumer, FALSE) } :
       /\ rres' = [rres EXCEPT ![p] = [ci |-> rres[p].ci, err |-> r.err, sub |-> r.sub]]
       /\ rpc' = [rpc EXCEPT ![p] = IF r.err = Nil THEN "done" ELSE "failed"]
  /\ UNCHANGED <<rreq, rlook, rorder>>
  /\ UNCHANGED <<reconcileVars, policyVars, deliveryVars, streamVars>>

(***************************************************************************)
(* GetOrAddStream                                                          *)
(***************************************************************************)
StreamNames == {"o", "p"}

\* The stream configurations a caller asks for: a name and a storage type.
StreamConfigs == [Name : StreamNames, Storage : {"file", "memory"}]

\* The broker call of a GetOrAddStream that fails for a reason of the
\* broker's or the transport's own.
StreamFaults == {"none", "lookup", "add"}

NoStream == [Config |-> [Name |-> "", Storage |-> ""]]

ErrStreamNotFound == <<"nats: ", "stream not found">>

ErrStreamRejected == <<"nats: ", "maximum number of streams reached">>

ErrStreamNameInUse == <<"nats: ", "stream name already in use">>

JS_StreamInfo(strs, name, fault) ==
  IF fault THEN [si |-> NoStream, err |-> ErrTimeout]
  ELSE IF \E t \in strs : t.Config.Name = name
  THEN [si |-> CHOOSE t \in strs : t.Config.Name = name, err |-> Nil]
  ELSE [si |-> NoStream, err |-> ErrStreamNotFound]

JS_AddStream(strs, cfg, reject) ==
  LET same == { t \in strs : t.Config.Name = cfg.Name }
  IN  IF reject THEN [si |-> NoStream, err |-> ErrStreamRejected, streams |-> strs]
      ELSE IF same = {}
      THEN [si |-> [Config |-> cfg], err |-> Nil, streams |-> strs \cup {[Config |-> cfg]}]
      ELSE IF [Config |-> cfg] \in same
      THEN [si |-> [Config |-> cfg], err |-> Nil, streams |-> strs]
      ELSE [si |-> NoStream, err |-> ErrStreamNameInUse, streams |-> strs]

ApiStreamInfo(name) == [op |-> "StreamInfo", stream |-> name]

ApiAddStream(cfg) == [op |-> "AddStream", stream |-> cfg.Name]

FetchError(err) == <<"NATS streamInfo-info could not be fetched: ">> \o err

CreateError(name, err) == <<"streamInfo ", name, " could not be created: ">> \o err

\* An existing stream brought to the requested configuration when it differs.
GetOrAddStream_Upsert(strs, streamConfig, lookupFault, addReject) ==
  LET look == JS_StreamInfo(strs, streamConfig.Name, lookupFault)
      add == JS_AddStream(strs, streamConfig, addReject)
      info == ApiStreamInfo(streamConfig.Name)
  IN  IF look.err # Nil
      THEN IF look.err # ErrStreamNotFound
           THEN [si |-> NoStream, err |-> FetchError(look.err), streams |-> strs,
                 api |-> <<info>>]
           ELSE IF add.err # Nil
           THEN [si |-> NoStream, err |-> CreateError(streamConfig.Name, add.err),
                 streams |-> add.streams, api |-> <<info, ApiAddStream(streamConfig)>>]
           ELSE [si |-> add.si, err |-> Nil, streams |-> add.streams,
                 api |-> <<info, ApiAddStream(streamConfig)>>]
      ELSE [si |-> [Config |-> streamConfig], err |-> Nil,
            streams |-> (strs \ {look.si}) \cup {[Config |-> streamConfig]},
            api |-> <<info>>]

GetOrAddStream(strs, streamConfig, lookupFault, addReject) ==
  LET look == JS_StreamInfo(strs, streamConfig.Name, lookupFault)
      add == JS_AddStream(strs, streamConfig, addReject)
      info == ApiStreamInfo(streamConfig.Name)
  IN  IF look.err # Nil
      THEN IF look.err # ErrStreamNotFound
           THEN [si |-> NoStream, err |-> FetchError(look.err), streams |-> strs,
                 api |-> <<info>>]
           ELSE IF add.err # Nil
           THEN [si |-> NoStream, err |-> CreateError(streamConfig.Name, add.err),
                 streams |-> add.streams, api |-> <<info, ApiAddStream(streamConfig)>>]
           ELSE [si |-> add.si, err |-> Nil, streams |-> add.streams,
                 api |-> <<info, ApiAddStream(streamConfig)>>]
      ELSE [si |-> look.si, err |-> Nil, streams |-> strs, api |-> <<info>>]

NoStreamCall ==
  [called |-> FALSE, config |-> NoStream.Config, fault |-> "none", api |-> << >>,
   err |-> Nil, si |-> NoStream, pre |-> {}]

GetOrAddStreamCall(streamConfig, fault) ==
  /\ nStreamCalls < MaxCalls
  /\ \E r \in { GetOrAddStream(streams, streamConfig, fault = "lookup", fault = "add") } :
       /\ streams' = r.streams
       /\ lastStream' = [called |-> TRUE, config |-> streamConfig, fault |-> fault,
                         api |-> r.api, err |-> r.err, si |-> r.si, pre |-> streams]
  /\ nStreamCalls' = nStreamCalls + 1
  /\ UNCHANGED <<reconcileVars, policyVars, deliveryVars, raceVars>>

(***************************************************************************)
(* PublishMsg                                                              *)
(***************************************************************************)
\* The stream the messages of DeliverySubject are stored in, and the durable
\* consumer the workers share.
DeliverySubject == <<"o", ".", "c">>

DeliveryStream == <<"o">>

DeliveryConsumer == "C"

Workers == {"w1", "w2"}

\* The publisher's messages: message idx carries the msgID "msg-<idx>" and
\* the payload PayloadOf(idx); two messages may carry the same payload.
MsgIDs == 1..MaxPublish

PayloadOf(idx) == IF idx % 2 = 1 THEN "hello" ELSE "world"

\* The batch sizes a worker asks for.
BatchSizes == {1, 2}

\* fmt.Sprintf("msg-%d", idx)
MsgIDText(idx) == "msg-" \o Itoa(idx)

NoMsgId == ""

NoPublish ==
  [called |-> FALSE, msgID |-> NoMsgId, data |-> "", fault |-> FALSE, err |-> Nil,
   dup |-> FALSE, pre |-> << >>]

\* JetStream's publish with the options of the call: a message whose MsgId is
\* in the dedup window is acknowledged as a duplicate and not stored again.
JS_PublishMsg(msgs, window, msg, msgIdOpt, fault) ==
  IF fault THEN [err |-> ErrTimeout, msgs |-> msgs, window |-> window]
  ELSE IF msgIdOpt # NoMsgId /\ msgIdOpt \in window
  THEN [err |-> Nil, msgs |-> msgs, window |-> window]
  ELSE [err |-> Nil,
        msgs |-> Append(msgs, [msgID |-> msgIdOpt, data |-> msg.Data, inWindow |-> TRUE]),
        window |-> IF msgIdOpt = NoMsgId THEN window ELSE window \cup {msgIdOpt}]

\* The message published without the nats.MsgId option.
PublishMsg_NoMsgId(msgs, window, msg, msgID, fault) ==
  JS_PublishMsg(msgs, window, msg, NoMsgId, fault)

\* The broker's error dropped: the caller is told the publish went through.
PublishMsg_SwallowError(msgs, window, msg, msgID, fault) ==
  [JS_PublishMsg(msgs, window, msg, msgID, fault) EXCEPT !.err = Nil]

PublishMsg(msgs, window, msg, msgID, fault) ==
  JS_PublishMsg(msgs, window, msg, msgID, fault)

Publish(idx, fault) ==
  LET data == PayloadOf(idx)
      msg == [Subject |-> DeliverySubject, Data |-> data]
      r == PublishMsg(streamMsgs, dedupWindow, msg, MsgIDText(idx), fault)
  IN  /\ nPub < MaxPublish
      /\ streamMsgs' = r.msgs
      /\ dedupWindow' = r.window
      /\ published' = IF r.err = Nil
                      THEN Append(published, [msgID |-> MsgIDText(idx), data |-> data,
                                              inWindow |-> TRUE])
                      ELSE published
      /\ lastPub' = [called |-> TRUE, msgID |-> MsgIDText(idx), data |-> data,
                     fault |-> fault, err |-> r.err,
                     dup |-> \E i \in DOMAIN published :
                               /\ published[i].msgID = MsgIDText(idx)
                               /\ published[i].inWindow,
                     pre |-> streamMsgs]
      /\ nPub' = nPub + 1
      /\ UNCHANGED <<consumerVars, workerVars, reconcileVars, policyVars, scenarioVars>>

\* The dedup window elapses: the broker forgets the msgIDs it has seen, and
\* the messages stored so far are no longer within the window.
DedupWindowElapses ==
  /\ dedupWindow # {}
  /\ dedupWindow' = {}
  /\ streamMsgs' = [i \in DOMAIN streamMsgs |-> [streamMsgs[i] EXCEPT !.inWindow = FALSE]]
  /\ published' = [i \in DOMAIN published |-> [published[i] EXCEPT !.inWindow = FALSE]]
  /\ UNCHANGED <<lastPub, nPub>>
  /\ UNCHANGED <<consumerVars, workerVars, reconcileVars, policyVars, scenarioVars>>

(***************************************************************************)
(* The subscription: pull, dispatch, acknowledge                           *)
(***************************************************************************)
\* A worker subscribes, once: CreateSubscription on the shared durable
\* consumer; a worker whose call fails does not consume.
Subscribe(w, mode) ==
  /\ wstate[w] = "start"
  /\ CreateSubscription(DeliverySubject, DeliveryConsumer, mode, "none")
  /\ wsub' = [wsub EXCEPT ![w] = last'.sub]
  /\ wstate' = [wstate EXCEPT ![w] = IF last'.err = Nil THEN "subscribed" ELSE "failed"]
  /\ UNCHANGED <<inbox, outcome, handled, nFail>>
  /\ UNCHANGED <<brokerVars, consumerVars, publishVars, policyVars, scenarioVars>>

\* The stored configuration of the consumer a subscription is bound to.
BoundConsumer(sub) ==
  CHOOSE c \in consumers : c.Stream = sub.stream /\ c.Name = sub.consumer

\* How many more messages the broker may deliver to the consumer: maxAckPending
\* caps the delivered and unacknowledged ones, 0 standing for no cap.
Capacity(maxAckPending) ==
  IF maxAckPending = 0 THEN Len(streamMsgs) + Len(redeliver)
  ELSE IF maxAckPending > Cardinality(ackPending)
  THEN maxAckPending - Cardinality(ackPending)
  ELSE 0

Min(a, b) == IF a < b THEN a ELSE b

\* The next n deliveries: the sequences waiting for redelivery first, then
\* the stream's next undelivered ones.
NextDeliveries(n) ==
  LET fromRedeliver == Min(n, Len(redeliver))
      fresh == Min(n - fromRedeliver, Len(streamMsgs) - cursor)
  IN  [batch |-> SubSeq(redeliver, 1, fromRedeliver)
                   \o [i \in 1..fresh |-> cursor + i],
       redeliver |-> SubSeq(redeliver, fromRedeliver + 1, Len(redeliver)),
       cursor |-> cursor + fresh]

\* A worker with nothing in hand pulls a batch of at most batchSize messages.
Fetch(w, batchSize) ==
  /\ wstate[w] = "subscribed"
  /\ wsub[w].stream = DeliveryStream
  /\ inbox[w] = << >>
  /\ LET n == Min(batchSize, Capacity(BoundConsumer(wsub[w]).Config.MaxAckPending))
         d == NextDeliveries(n)
     IN  /\ d.batch # << >>
         /\ inbox' = [inbox EXCEPT ![w] = d.batch]
         /\ ackPending' = ackPending \cup { d.batch[i] : i \in DOMAIN d.batch }
         /\ redeliver' = d.redeliver
         /\ cursor' = d.cursor
  /\ UNCHANGED <<acked, wstate, wsub, outcome, handled, nFail>>
  /\ UNCHANGED <<brokerVars, publishVars, reconcileVars, policyVars, scenarioVars>>

\* The handler is invoked on the head of the batch and returns.
Dispatch(w, ok) ==
  /\ inbox[w] # << >>
  /\ outcome[w] = "none"
  /\ ok \/ nFail < MaxFailures
  /\ handled' = Append(handled, [seq |-> Head(inbox[w]), ok |-> ok])
  /\ outcome' = [outcome EXCEPT ![w] = IF ok THEN "ok" ELSE "fail"]
  /\ nFail' = IF ok THEN nFail ELSE nFail + 1
  /\ UNCHANGED <<wstate, wsub, inbox>>
  /\ UNCHANGED <<brokerVars, consumerVars, publishVars, reconcileVars, policyVars, scenarioVars>>

\* Every result acknowledged: a failed message is not given back to the broker.
Settle_AckAlways(w) ==
  /\ outcome[w] # "none"
  /\ LET seq == Head(inbox[w])
     IN  /\ ackPending' = ackPending \ {seq}
         /\ acked' = acked \cup {seq}
         /\ redeliver' = redeliver
  /\ inbox' = [inbox EXCEPT ![w] = Tail(inbox[w])]
  /\ outcome' = [outcome EXCEPT ![w] = "none"]
  /\ UNCHANGED <<cursor, wstate, wsub, handled, nFail>>
  /\ UNCHANGED <<brokerVars, publishVars, reconcileVars, policyVars, scenarioVars>>

\* The handler's result is sent to the broker: Ack on success, Nak on failure
\* (the message is queued for redelivery).
Settle(w) ==
  /\ outcome[w] # "none"
  /\ LET seq == Head(inbox[w])
     IN  /\ ackPending' = ackPending \ {seq}
         /\ acked' = IF outcome[w] = "ok" THEN acked \cup {seq} ELSE acked
         /\ redeliver' = IF outcome[w] = "ok" THEN redeliver ELSE Append(redeliver, seq)
  /\ inbox' = [inbox EXCEPT ![w] = Tail(inbox[w])]
  /\ outcome' = [outcome EXCEPT ![w] = "none"]
  /\ UNCHANGED <<cursor, wstate, wsub, handled, nFail>>
  /\ UNCHANGED <<brokerVars, publishVars, reconcileVars, policyVars, scenarioVars>>

(***************************************************************************)
(* The policy function run on its own                                      *)
(***************************************************************************)
PolicyModes == (0 - ModeSpan)..ModeSpan

PolicyConfigs ==
  [Durable : ConsumerNames, AckPolicy : {AckExplicitPolicy}, AckWait : {AckWaitSeconds},
   MaxAckPending : 0..MaxPrior]

PatchStep ==
  /\ polStage = "input"
  /\ polResult' = patchConsumerConfig(polConfig, polMode)
  /\ polStage' = "patched"
  /\ UNCHANGED <<polConfig, polMode>>
  /\ UNCHANGED <<reconcileVars, deliveryVars, scenarioVars>>

(***************************************************************************)
(* Specifications                                                          *)
(***************************************************************************)
InitReconcile ==
  /\ consumers = {}
  /\ last = NoCall
  /\ nCalls = 0
  /\ createdWith = {}

InitDelivery ==
  /\ streamMsgs = << >>
  /\ dedupWindow = {}
  /\ ackPending = {}
  /\ redeliver = << >>
  /\ cursor = 0
  /\ acked = {}
  /\ wstate = [w \in Workers |-> "start"]
  /\ wsub = [w \in Workers |-> NoSubscription]
  /\ inbox = [w \in Workers |-> << >>]
  /\ outcome = [w \in Workers |-> "none"]
  /\ handled = << >>
  /\ published = << >>
  /\ lastPub = NoPublish
  /\ nPub = 0
  /\ nFail = 0

InitRace ==
  /\ rpc = [p \in Procs |-> "start"]
  /\ rreq = [p \in Procs |-> NoRequest]
  /\ rlook = [p \in Procs |-> NoLookup]
  /\ rres = [p \in Procs |-> NoResult]
  /\ rorder = << >>

InitStream ==
  /\ streams = {}
  /\ lastStream = NoStreamCall
  /\ nStreamCalls = 0

InitScenarios == InitRace /\ InitStream

InitPolicyIdle ==
  /\ polConfig = NewConsumerConfig("C", MultipleInstances)
  /\ polMode = MultipleInstances
  /\ polResult = polConfig
  /\ polStage = "idle"

\* Reconciliation: CreateSubscription calls, one after the other, on a broker
\* that starts without consumers.
Init == InitReconcile /\ InitPolicyIdle /\ InitDelivery /\ InitScenarios

Next ==
  \E subject \in Subjects, consumerName \in ConsumerNames, mode \in Modes, fault \in Faults :
    /\ nCalls < MaxCalls
    /\ CreateSubscription(subject, consumerName, mode, fault)
    /\ UNCHANGED <<policyVars, deliveryVars, scenarioVars>>

Spec == Init /\ [][Next]_vars

\* The policy function on every mode and every incoming configuration.
InitPolicy ==
  /\ InitReconcile
  /\ InitDelivery
  /\ InitScenarios
  /\ polConfig \in PolicyConfigs
  /\ polMode \in PolicyModes
  /\ polResult = polConfig
  /\ polStage = "input"

NextPolicy == PatchStep

SpecPolicy == InitPolicy /\ [][NextPolicy]_vars

\* One CreateSubscription on every subject up to MaxSubjectLen characters, on a
\* broker that is empty or holds the consumer an earlier call has created.
InitSubject ==
  /\ InitPolicyIdle
  /\ InitDelivery
  /\ InitScenarios
  /\ last = NoCall
  /\ nCalls = 0
  /\ \/ /\ consumers = {}
              /\ createdWith = {}
     \/ \E subject \in AllSubjects, mode \in {MultipleInstances, SingleInstanceMessagesInOrder} :
          LET r == CreateSubscriptionResult({}, subject, "C", mode, "none")
          IN  /\ consumers = r.consumers
              /\ createdWith = { [ci |-> c, mode |-> mode] : c \in r.consumers }

NextSubject ==
  \E subject \in AllSubjects, mode \in {MultipleInstances, SingleInstanceMessagesInOrder},
     fault \in Faults :
    /\ ~last.called
    /\ CreateSubscription(subject, "C", mode, fault)
    /\ UNCHANGED <<policyVars, deliveryVars, scenarioVars>>

SpecSubject == InitSubject /\ [][NextSubject]_vars

\* Delivery: publishers, and workers that subscribe to one durable consumer
\* and run the pull loop.
NextDelivery ==
  \/ \E idx \in MsgIDs, fault \in BOOLEAN : Publish(idx, fault)
  \/ \E w \in Workers, mode \in {MultipleInstances, SingleInstanceMessagesInOrder} :
       Subscribe(w, mode)
  \/ \E w \in Workers, batchSize \in BatchSizes : Fetch(w, batchSize)
  \/ \E w \in Workers, ok \in BOOLEAN : Dispatch(w, ok)
  \/ \E w \in Workers : Settle(w)

SpecDelivery == Init /\ [][NextDelivery]_vars

\* Delivery with workers that keep running: a worker that can fetch, dispatch
\* or settle eventually does.
WorkerStep(w) ==
  \/ \E batchSize \in BatchSizes : Fetch(w, batchSize)
  \/ \E ok \in BOOLEAN : Dispatch(w, ok)
  \/ Settle(w)

\* The publisher publishes its messages one after the other, its calls are
\* answered, and the workers pull one message at a time.
NextLive ==
  \/ Publish(nPub + 1, FALSE)
  \/ \E w \in Workers, mode \in {MultipleInstances, SingleInstanceMessagesInOrder} :
       Subscribe(w, mode)
  \/ \E w \in Workers : Fetch(w, 1)
  \/ \E w \in Workers, ok \in BOOLEAN : Dispatch(w, ok)
  \/ \E w \in Workers : Settle(w)

SpecLive == Init /\ [][NextLive]_vars /\ \A w \in Workers : WF_vars(WorkerStep(w))

\* Deduplication: a publisher that may repeat a msgID, the dedup window that
\* may elapse in between, and the workers consuming what was stored.
NextDedup ==
  \/ \E idx \in MsgIDs, fault \in BOOLEAN : Publish(idx, fault)
  \/ DedupWindowElapses
  \/ \E w \in Workers, mode \in {MultipleInstances, SingleInstanceMessagesInOrder} :
       Subscribe(w, mode)
  \/ \E w \in Workers : Fetch(w, 1)
  \/ \E w \in Workers : Dispatch(w, TRUE)
  \/ \E w \in Workers : Settle(w)

SpecDedup == Init /\ [][NextDedup]_vars

\* The race: two processes call CreateSubscription for the same durable
\* consumer at the same time, each call being three broker calls that the
\* other's may fall between.
NextRace ==
  \/ \E p \in Procs, subject \in RaceSubjects, mode \in Modes : RaceLookup(p, subject, mode)
  \/ \E p \in Procs : RaceReconcile(p)
  \/ \E p \in Procs : RacePullSubscribe(p)

SpecRace == Init /\ [][NextRace]_vars

\* Streams: GetOrAddStream calls, one after the other, on a broker that
\* starts without streams.
NextStream ==
  \E streamConfig \in StreamConfigs, fault \in StreamFaults :
    GetOrAddStreamCall(streamConfig, fault)

SpecStream == Init /\ [][NextStream]_vars

(***************************************************************************)
(* Properties of the reconciler (checked under Spec)                       *)
(***************************************************************************)
\* The consumers of the last call's (stream, consumerName), the stream being
\* the text of the subject before its first ".".
LastKeyIn(cons) ==
  { c \in cons : /\ c.Stream = TextBeforeFirstDot(last.subject)
                 /\ c.Name = last.consumerName }

IsDriftError(err) == Contains(err, DriftText)

Names(err, text) == Contains(err, text)

\* maxAckPending as the spec's data model gives it per mode.
PolicyValue(mode) == IF mode = SingleInstanceMessagesInOrder THEN 1 ELSE 0

\* C1: when a reconciliation of (stream, consumerName, mode) has succeeded and
\* the very next call asks for the same (stream, consumerName, mode), then,
\* the broker answering the lookup, the second call succeeds, issues no
\* AddConsumer, changes no consumer and returns the consumer that existed;
\* exactly one consumer of that name is on the stream.
C1_IdempotentReconcile ==
  (last.called /\ last.repeat /\ last.fault # "lookup") =>
    /\ last.rerr = Nil
    /\ \A i \in DOMAIN last.api : last.api[i].op # "AddConsumer"
    /\ consumers = last.pre
    /\ Cardinality(LastKeyIn(consumers)) = 1
    /\ last.ci \in LastKeyIn(last.pre)

C1_Witness ==
  /\ last.called /\ last.repeat /\ last.fault = "none"
  /\ last.err = Nil
  /\ last.ci \in LastKeyIn(consumers)
  /\ nCalls >= 2

\* C2 as stated: a reconciliation whose mode differs from the mode the
\* existing consumer was created with fails with the drift error (the broker
\* answering the lookup) and leaves the consumers as they were.
C2_DriftOnAnyOtherMode ==
  (/\ last.called /\ last.fault # "lookup"
   /\ \E w \in createdWith : w.ci \in LastKeyIn(last.pre) /\ w.mode # last.mode) =>
    /\ IsDriftError(last.rerr)
    /\ consumers = last.pre

\* C2 amended: a reconciliation whose mode maps to another maxAckPending than
\* the mode the existing consumer was created with (1 for
\* SingleInstanceMessagesInOrder, 0 for every other mode) fails with the
\* drift error, which CreateSubscription returns without a subscription, and
\* leaves the consumers as they were; so does "C" created with
\* MultipleInstances and reconciled with SingleInstanceMessagesInOrder.
C2_DriftOnOtherPolicyValue ==
  (/\ last.called /\ last.fault # "lookup"
   /\ \E w \in createdWith :
        /\ w.ci \in LastKeyIn(last.pre)
        /\ PolicyValue(w.mode) # PolicyValue(last.mode)) =>
    /\ IsDriftError(last.rerr)
    /\ last.err = last.rerr
    /\ last.sub = NoSubscription
    /\ consumers = last.pre

C2_Witness ==
  /\ last.called /\ last.fault = "none"
  /\ last.consumerName = "C"
  /\ last.mode = SingleInstanceMessagesInOrder
  /\ \E w \in createdWith : w.ci \in LastKeyIn(last.pre) /\ w.mode = MultipleInstances
  /\ IsDriftError(last.err)

\* C3: every consumer ever created is still stored with the maxAckPending it
\* was created with, and every stored consumer is one that was created so: no
\* reconciliation call, successful or failing, changes it.
C3_MaxAckPendingImmutable ==
  /\ \A w \in createdWith : w.ci \in consumers
  /\ \A c \in consumers : \E w \in createdWith : w.ci = c
  /\ \A c, d \in consumers : (c.Stream = d.Stream /\ c.Name = d.Name) => c = d

C3_Witness ==
  /\ nCalls >= 3
  /\ last.called /\ IsDriftError(last.err)
  /\ \E w \in createdWith :
       /\ w.ci \in LastKeyIn(consumers)
       /\ w.ci.Config.MaxAckPending = PolicyValue(w.mode)
       /\ w.mode # last.mode

\* C10 as stated: a drift error names the consumer, the requested mode and
\* the existing mode.
C10_DriftErrorNamesBothModes ==
  (last.called /\ IsDriftError(last.rerr)) =>
    /\ Names(last.rerr, last.consumerName)
    /\ Names(last.rerr, Itoa(last.mode))
    /\ \E c \in LastKeyIn(last.pre) : \E m \in {MultipleInstances, SingleInstanceMessagesInOrder} :
         PolicyValue(m) = c.Config.MaxAckPending /\ Names(last.rerr, Itoa(m))

\* C10 amended: a drift error names the consumer and the existing mode, which
\* is the named mode whose maxAckPending is the stored one; the requested
\* mode is not part of the message.
C10_DriftErrorNamesExistingMode ==
  (last.called /\ IsDriftError(last.rerr)) =>
    /\ Names(last.rerr, last.consumerName)
    /\ \E c \in LastKeyIn(last.pre) : \E m \in {MultipleInstances, SingleInstanceMessagesInOrder} :
         PolicyValue(m) = c.Config.MaxAckPending /\ Names(last.rerr, Itoa(m))
    /\ ~Names(last.rerr, Itoa(last.mode))

C10_Witness ==
  /\ last.called /\ IsDriftError(last.rerr)
  /\ last.mode = MultipleInstances
  /\ \E c \in LastKeyIn(last.pre) : c.Config.MaxAckPending = 1
  /\ Names(last.rerr, "1")

\* No AddConsumer among the broker calls of the last CreateSubscription.
NoAddConsumerCall == \A i \in DOMAIN last.api : last.api[i].op # "AddConsumer"

\* C11: a lookup that fails with an error other than "not found" ends the
\* reconciliation with that very error: no AddConsumer is issued, the
\* broker's consumers are as they were and no subscription is returned; a
\* lookup that answers "not found" is followed by an AddConsumer for that
\* stream and name, which, unless the broker rejects it, creates the consumer.
C11_LookupFailureKinds ==
  last.called =>
    /\ (last.fault = "lookup" =>
          /\ last.rerr = ErrTimeout
          /\ last.err = ErrTimeout
          /\ last.api = <<ApiConsumerInfo(TextBeforeFirstDot(last.subject), last.consumerName)>>
          /\ NoAddConsumerCall
          /\ consumers = last.pre
          /\ last.sub = NoSubscription)
    /\ ((last.fault # "lookup" /\ LastKeyIn(last.pre) = {}) =>
          /\ Len(last.api) >= 2
          /\ last.api[1].op = "ConsumerInfo"
          /\ last.api[2].op = "AddConsumer"
          /\ last.api[2].stream = TextBeforeFirstDot(last.subject)
          /\ last.api[2].consumer = last.consumerName
          /\ (last.fault # "add" =>
                /\ last.rerr = Nil
                /\ Cardinality(LastKeyIn(consumers)) = 1
                /\ consumers = last.pre \cup LastKeyIn(consumers)))

\* A lookup that fails for the transport's reasons while the consumer is
\* absent, after an earlier call has created another consumer.
C11_Witness ==
  /\ last.called /\ last.fault = "lookup"
  /\ LastKeyIn(last.pre) = {}
  /\ last.pre # {}
  /\ last.err = ErrTimeout
  /\ consumers = last.pre

\* C13: when the reconciliation of a CreateSubscription fails, with the
\* drift error, with a lookup error other than "not found" or with the
\* wrapped rejection of the creation, CreateSubscription returns that error
\* and no subscription, and PullSubscribe is not among its broker calls.
C13_NoPartialSubscription ==
  (last.called /\ last.rerr # Nil) =>
    /\ last.err = last.rerr
    /\ last.sub = NoSubscription
    /\ \A i \in DOMAIN last.api : last.api[i].op # "PullSubscribe"
    /\ \/ IsDriftError(last.rerr)
       \/ last.fault = "lookup" /\ last.rerr = ErrTimeout
       \/ /\ last.fault = "add"
          /\ last.rerr = AddError(last.consumerName, TextBeforeFirstDot(last.subject),
                                  ErrRejected)

\* The broker rejects the creation of a consumer on a stream that holds
\* another one already.
C13_Witness ==
  /\ last.called /\ last.fault = "add"
  /\ Contains(last.err, "maximum consumers limit reached")
  /\ last.sub = NoSubscription
  /\ last.pre # {}
  /\ LastKeyIn(consumers) = {}

\* C14: a CreateSubscription for a (stream, consumerName) without consumer,
\* the broker answering the lookup and accepting the creation, creates exactly
\* one consumer: on that stream, of that durable name, with explicit
\* acknowledgement, an ack-wait of 30 seconds and the maxAckPending of the
\* requested mode's policy value, and the reconciliation returns it; where
\* the consumer exists, the drift check compares that same policy value of
\* the requested mode with the stored maxAckPending.
C14_NewConsumerConfiguration ==
  last.called =>
    /\ ((LastKeyIn(last.pre) = {} /\ last.fault \notin {"lookup", "add"}) =>
          /\ consumers \ last.pre = {last.ci}
          /\ last.pre \subseteq consumers
          /\ last.rerr = Nil
          /\ last.ci.Stream = TextBeforeFirstDot(last.subject)
          /\ last.ci.Name = last.consumerName
          /\ last.ci.Config.Durable = last.consumerName
          /\ last.ci.Config.AckPolicy = "AckExplicit"
          /\ last.ci.Config.AckWait = 30
          /\ last.ci.Config.MaxAckPending = PolicyValue(last.mode)
          /\ [ci |-> last.ci, mode |-> last.mode] \in createdWith)
    /\ ((LastKeyIn(last.pre) # {} /\ last.fault # "lookup") =>
          /\ consumers = last.pre
          /\ \A c \in LastKeyIn(last.pre) :
               IsDriftError(last.rerr) <=> (c.Config.MaxAckPending # PolicyValue(last.mode)))

\* A second consumer created, with SingleInstanceMessagesInOrder, next to one
\* an earlier call has created.
C14_Witness ==
  /\ last.called /\ last.err = Nil
  /\ LastKeyIn(last.pre) = {}
  /\ last.pre # {}
  /\ last.mode = SingleInstanceMessagesInOrder
  /\ last.ci \in consumers \ last.pre
  /\ last.ci.Config.MaxAckPending = 1
  /\ last.ci.Config.AckWait = 30

\* The modes that are neither of the two named ones.
UnrecognizedModes == Modes \ {MultipleInstances, SingleInstanceMessagesInOrder}

\* C18: when the consumer exists and the broker answers the lookup, the
\* reconciliation succeeds exactly when the policy value of the requested
\* mode is the stored maxAckPending, and otherwise fails with the drift
\* error; so an unrecognized mode succeeds, returning the stored consumer, on
\* a consumer created with MultipleInstances and fails with the drift error
\* on a consumer created with SingleInstanceMessagesInOrder.
C18_DriftIffPolicyValueDiffers ==
  (last.called /\ last.fault # "lookup") =>
    \A c \in LastKeyIn(last.pre) :
      /\ (last.rerr = Nil) <=> (PolicyValue(last.mode) = c.Config.MaxAckPending)
      /\ (last.rerr # Nil) <=> IsDriftError(last.rerr)
      /\ (last.rerr = Nil) => last.ci = c
      /\ (last.mode \in UnrecognizedModes
            /\ [ci |-> c, mode |-> MultipleInstances] \in createdWith)
           => last.rerr = Nil /\ ~IsDriftError(last.err)
      /\ (last.mode \in UnrecognizedModes
            /\ [ci |-> c, mode |-> SingleInstanceMessagesInOrder] \in createdWith)
           => IsDriftError(last.rerr) /\ last.err = last.rerr

\* An unrecognized mode asked for on a consumer created with
\* MultipleInstances: the call succeeds and returns a subscription.
C18_Witness ==
  /\ last.called /\ last.fault = "none"
  /\ last.mode \in UnrecognizedModes
  /\ \E c \in LastKeyIn(last.pre) : [ci |-> c, mode |-> MultipleInstances] \in createdWith
  /\ last.err = Nil
  /\ last.sub # NoSubscription

(***************************************************************************)
(* Properties of racing reconcilers (checked under SpecRace)               *)
(***************************************************************************)
\* The consumers of the name both processes reconcile, on their stream.
RaceKeyIn(cons) == { c \in cons : c.Stream = <<"o">> /\ c.Name = RaceConsumer }

\* The position of process p in rorder (0: it has not left getOrAddConsumer).
RacePosition(p) ==
  IF \E i \in DOMAIN rorder : rorder[i] = p
  THEN CHOOSE i \in DOMAIN rorder : rorder[i] = p
  ELSE 0

RaceSucceeded(p) == rpc[p] \in {"reconciled", "done"}

RaceFinished(p) == rpc[p] \in {"done", "failed"}

\* The broker's rejection of an AddConsumer with another configuration, as
\* getOrAddConsumer wraps it.
IsRejectedAdd(err) == Contains(err, " could not be added to stream ") /\ Contains(err, "consumer name already in use")

\* C12: under every interleaving of two processes reconciling the same
\* (stream, consumerName): the consumer keeps the configuration it was first
\* created with and there is one consumer of that name at most; a process
\* that succeeds holds the stored consumer, whose maxAckPending is the policy
\* value of the mode it asked for; a process that fails is the later one, the
\* other having succeeded before it, it asked for another policy value than
\* the stored one, and its error is the drift error (it looked the consumer
\* up after the creation) or the broker's rejection of its differing
\* AddConsumer (both had looked it up before either created it); when both
\* have returned, both have succeeded with one configuration or the later
\* one alone has failed.
C12_RacingReconcilers ==
  /\ \A w \in createdWith : w.ci \in consumers
  /\ Cardinality(RaceKeyIn(consumers)) <= 1
  /\ consumers = RaceKeyIn(consumers)
  /\ \A p \in Procs :
       RaceSucceeded(p) =>
         /\ rres[p].ci \in RaceKeyIn(consumers)
         /\ rres[p].ci.Config.MaxAckPending = PolicyValue(rreq[p].mode)
         /\ (rpc[p] = "done" =>
               /\ rres[p].sub.stream = rres[p].ci.Stream
               /\ rres[p].sub.consumer = rres[p].ci.Name)
  /\ \A p \in Procs :
       rpc[p] = "failed" =>
         /\ IsDriftError(rres[p].err) \/ IsRejectedAdd(rres[p].err)
         /\ rres[p].sub = NoSubscription
         /\ \E q \in Procs \ {p} :
              /\ RaceSucceeded(q)
              /\ RacePosition(q) < RacePosition(p)
              /\ PolicyValue(rreq[q].mode) # PolicyValue(rreq[p].mode)
         /\ \A c \in RaceKeyIn(consumers) :
              c.Config.MaxAckPending # PolicyValue(rreq[p].mode)
  /\ (\A p \in Procs : RaceFinished(p)) =>
       \/ /\ \A p \in Procs : rpc[p] = "done"
          /\ \A p, q \in Procs : rres[p].ci = rres[q].ci
       \/ \E p, q \in Procs :
            /\ rpc[p] = "done" /\ rpc[q] = "failed"
            /\ RacePosition(p) < RacePosition(q)

\* Both processes looked the consumer up before either had created it, with
\* modes of different policy values: the first AddConsumer created it and the
\* second was rejected.
C12_Witness ==
  /\ \A p \in Procs : RaceFinished(p) /\ IsNotFound(rlook[p].err)
  /\ rpc["p1"] = "failed" /\ rpc["p2"] = "done"
  /\ IsRejectedAdd(rres["p1"].err)
  /\ rreq["p1"].mode = MultipleInstances
  /\ rreq["p2"].mode = SingleInstanceMessagesInOrder
  /\ \E c \in consumers : c.Name = RaceConsumer /\ c.Config.MaxAckPending = 1

(***************************************************************************)
(* Properties of GetOrAddStream (checked under SpecStream)                 *)
(***************************************************************************)
\* The streams of the name the last GetOrAddStream asked for.
LastStreamIn(strs) == { t \in strs : t.Config.Name = lastStream.config.Name }

NoAddStreamCall == \A i \in DOMAIN lastStream.api : lastStream.api[i].op # "AddStream"

\* C19: GetOrAddStream gets or creates and checks no drift.  When a stream of
\* the requested name exists and the broker answers the lookup, the call
\* returns the existing stream's info without error, issues no AddStream and
\* leaves the streams as they were, also when the requested configuration is
\* another than the stored one.  When the lookup answers "stream not found",
\* exactly one AddStream follows, which creates the stream with the requested
\* configuration unless the broker rejects it.  When the lookup fails with
\* any other error, the call returns an error wrapping it, issues no
\* AddStream and creates nothing.  A name never has two streams.
C19_GetOrAddStream ==
  /\ \A t, u \in streams : t.Config.Name = u.Config.Name => t = u
  /\ lastStream.called =>
       /\ ((lastStream.fault # "lookup" /\ LastStreamIn(lastStream.pre) # {}) =>
             /\ lastStream.err = Nil
             /\ lastStream.si \in LastStreamIn(lastStream.pre)
             /\ lastStream.api = <<ApiStreamInfo(lastStream.config.Name)>>
             /\ NoAddStreamCall
             /\ streams = lastStream.pre)
       /\ ((lastStream.fault # "lookup" /\ LastStreamIn(lastStream.pre) = {}) =>
             /\ lastStream.api = <<ApiStreamInfo(lastStream.config.Name),
                                   ApiAddStream(lastStream.config)>>
             /\ (lastStream.fault = "none" =>
                   /\ lastStream.err = Nil
                   /\ lastStream.si = [Config |-> lastStream.config]
                   /\ streams = lastStream.pre \cup {[Config |-> lastStream.config]})
             /\ (lastStream.fault = "add" =>
                   /\ lastStream.err = CreateError(lastStream.config.Name, ErrStreamRejected)
                   /\ lastStream.si = NoStream
                   /\ streams = lastStream.pre))
       /\ (lastStream.fault = "lookup" =>
             /\ lastStream.err = FetchError(ErrTimeout)
             /\ lastStream.si = NoStream
             /\ NoAddStreamCall
             /\ streams = lastStream.pre)

\* A stream stored with file storage and asked for with memory storage: the
\* call returns the stored stream and changes nothing.
C19_Witness ==
  /\ lastStream.called /\ lastStream.fault = "none"
  /\ lastStream.config = [Name |-> "o", Storage |-> "memory"]
  /\ lastStream.err = Nil
  /\ lastStream.si = [Config |-> [Name |-> "o", Storage |-> "file"]]
  /\ lastStream.si \in streams
  /\ NoAddStreamCall

(***************************************************************************)
(* Properties of the policy function (checked under SpecPolicy)            *)
(***************************************************************************)
\* C4: patchConsumerConfig maps every mode to a maxAckPending that depends on
\* the mode alone: 0 for MultipleInstances, 1 for
\* SingleInstanceMessagesInOrder, 0 for every other integer; the value is
\* never negative and the other fields of the configuration are kept.
C4_PolicyTotal ==
  (polStage = "patched") =>
    /\ (polMode = MultipleInstances => polResult.MaxAckPending = 0)
    /\ (polMode = SingleInstanceMessagesInOrder => polResult.MaxAckPending = 1)
    /\ (polMode \notin {MultipleInstances, SingleInstanceMessagesInOrder}
          => polResult.MaxAckPending = 0)
    /\ polResult.MaxAckPending >= 0
    /\ polResult = [polConfig EXCEPT !.MaxAckPending = polResult.MaxAckPending]

C4_Witness ==
  /\ polStage = "patched"
  /\ polMode < 0
  /\ polConfig.MaxAckPending > 1
  /\ polResult.MaxAckPending = 0

(***************************************************************************)
(* Properties of the stream name (checked under SpecSubject)               *)
(***************************************************************************)
\* C9: every broker call of a CreateSubscription (the lookup, the creation,
\* the pull subscription's binding) names the stream that is the text of the
\* subject before its first "." (the whole subject when it has none); a
\* consumer the call creates is on that stream and the subscription it
\* returns is bound to it.
C9_StreamIsFirstToken ==
  last.called =>
    /\ last.api # << >>
    /\ \A i \in DOMAIN last.api : last.api[i].stream = TextBeforeFirstDot(last.subject)
    /\ \A c \in consumers \ last.pre : c.Stream = TextBeforeFirstDot(last.subject)
    /\ (last.err = Nil =>
          /\ last.sub.stream = TextBeforeFirstDot(last.subject)
          /\ last.sub.subject = last.subject
          /\ last.ci.Stream = TextBeforeFirstDot(last.subject))

C9_Witness ==
  /\ last.called /\ last.err = Nil
  /\ last.subject = <<"o", ".", "c">>
  /\ last.sub.stream = <<"o">>
  /\ \E c \in consumers : c.Stream = <<"o">> /\ c.Name = "C"

(***************************************************************************)
(* Properties of delivery (checked under SpecDelivery)                     *)
(***************************************************************************)
\* The shared consumer was created by a request for `mode`.
CreatedWithMode(mode) ==
  \E w \in createdWith :
    /\ w.ci.Stream = DeliveryStream
    /\ w.ci.Name = DeliveryConsumer
    /\ w.mode = mode

AllHandlersSucceeded == \A i \in DOMAIN handled : handled[i].ok

DistinctMsgIDs ==
  \A i, j \in DOMAIN published : i # j => published[i].msgID # published[j].msgID

Subscribed == { w \in Workers : wstate[w] = "subscribed" }

\* Every stored message has been delivered and acknowledged.
Drained ==
  /\ Subscribed # {}
  /\ cursor = Len(streamMsgs)
  /\ ackPending = {}
  /\ redeliver = << >>
  /\ \A w \in Workers : inbox[w] = << >>

\* What the handler is given at its i-th invocation.
HandledMsg(i) == streamMsgs[handled[i].seq]

\* C5: on a consumer created with SingleInstanceMessagesInOrder, when the
\* published messages have distinct msgIDs and every handler invocation has
\* succeeded, the i-th handler invocation is on the i-th published message,
\* whichever subscribed worker runs it (a single subscriber in particular):
\* same order, none twice; once everything stored is delivered and
\* acknowledged, the invocations are exactly the published messages.
C5_StrictOrder ==
  (/\ CreatedWithMode(SingleInstanceMessagesInOrder)
   /\ AllHandlersSucceeded
   /\ DistinctMsgIDs) =>
    /\ Len(handled) <= Len(published)
    /\ \A i \in DOMAIN handled :
         /\ HandledMsg(i).msgID = published[i].msgID
         /\ HandledMsg(i).data = published[i].data
    /\ (Drained => Len(handled) = Len(published))

C5_Witness ==
  /\ CreatedWithMode(SingleInstanceMessagesInOrder)
  /\ Cardinality(Subscribed) = 1
  /\ AllHandlersSucceeded /\ DistinctMsgIDs /\ Drained
  /\ Len(published) = 2
  /\ Len(handled) = 2
  /\ HandledMsg(1).data = "hello" /\ HandledMsg(2).data = "world"

\* The messages the workers hold: fetched and not yet settled.
InHand == UNION { { inbox[w][k] : k \in DOMAIN inbox[w] } : w \in Workers }

\* C15: on a consumer created with SingleInstanceMessagesInOrder, in every
\* reachable state at most one message is delivered and not acknowledged,
\* however many workers pull from the consumer, whatever batch sizes they ask
\* for and whatever their handlers return: the workers together hold one
\* message at most, and it is the one pending at the broker.
C15_InFlightBound ==
  CreatedWithMode(SingleInstanceMessagesInOrder) =>
    /\ Cardinality(ackPending) <= 1
    /\ \A w \in Workers : Len(inbox[w]) <= 1
    /\ \A v, w \in Workers : (v # w /\ inbox[v] # << >>) => inbox[w] = << >>
    /\ InHand = ackPending

\* Two workers on the consumer, two messages stored, a handler failure behind
\* them: one worker holds the one pending message, the other holds nothing
\* while a message waits.
C15_Witness ==
  /\ CreatedWithMode(SingleInstanceMessagesInOrder)
  /\ Cardinality(Subscribed) = 2
  /\ Len(streamMsgs) = 2
  /\ nFail = 1
  /\ Cardinality(ackPending) = 1
  /\ inbox["w1"] # << >> /\ inbox["w2"] = << >>
  /\ cursor < Len(streamMsgs) \/ redeliver # << >>

\* A message whose handler has failed and which is not acknowledged yet.
Unresolved == { handled[i].seq : i \in { k \in DOMAIN handled : ~handled[k].ok } } \ acked

\* C6: on a consumer created with SingleInstanceMessagesInOrder, after the
\* handler has failed on a message, every handler invocation up to that
\* message's successful one is on that same message, and until the message is
\* acknowledged no other message is delivered: it alone is in flight and the
\* stream's later messages are not handed out.
C6_FailureBlocks ==
  CreatedWithMode(SingleInstanceMessagesInOrder) =>
    /\ \A i, j \in DOMAIN handled :
         (/\ i < j
          /\ ~handled[i].ok
          /\ \A k \in (i + 1)..(j - 1) :
               ~(handled[k].seq = handled[i].seq /\ handled[k].ok))
           => handled[j].seq = handled[i].seq
    /\ \A s \in Unresolved :
         /\ ackPending \subseteq {s}
         /\ \A w \in Workers : \A k \in DOMAIN inbox[w] : inbox[w][k] = s
         /\ cursor = s

C6_Witness ==
  /\ CreatedWithMode(SingleInstanceMessagesInOrder)
  /\ Len(streamMsgs) = 2
  /\ Len(handled) = 3
  /\ handled[1] = [seq |-> 1, ok |-> FALSE]
  /\ handled[2] = [seq |-> 1, ok |-> TRUE]
  /\ handled[3] = [seq |-> 2, ok |-> TRUE]
  /\ Drained

\* C7: on a consumer created with MultipleInstances, when the published
\* messages have distinct msgIDs and every handler invocation has succeeded,
\* no stored message is handed to a handler twice and every message handed
\* to a handler is a published one; once everything stored is delivered and
\* acknowledged, the payloads handed to the workers' handlers are, as a
\* multiset, the payloads published, in whatever order.
C7_CompleteDelivery ==
  (/\ CreatedWithMode(MultipleInstances)
   /\ AllHandlersSucceeded
   /\ DistinctMsgIDs) =>
    /\ \A i, j \in DOMAIN handled : i # j => handled[i].seq # handled[j].seq
    /\ \A i \in DOMAIN handled : \E k \in DOMAIN published :
         /\ published[k].msgID = HandledMsg(i).msgID
         /\ published[k].data = HandledMsg(i).data
    /\ (Drained =>
          \A idx \in MsgIDs :
            Cardinality({ i \in DOMAIN handled : HandledMsg(i).data = PayloadOf(idx) })
              = Cardinality({ k \in DOMAIN published : published[k].data = PayloadOf(idx) }))

C7_Witness ==
  /\ CreatedWithMode(MultipleInstances)
  /\ Cardinality(Subscribed) = 2
  /\ AllHandlersSucceeded /\ DistinctMsgIDs /\ Drained
  /\ Len(published) = 2
  /\ Len(handled) = 2
  /\ HandledMsg(1).data = "world" /\ HandledMsg(2).data = "hello"

\* The number of messages waiting at the broker: queued for redelivery or
\* not delivered yet.
Deliverable == Len(redeliver) + (Len(streamMsgs) - cursor)

\* C16: on a consumer created with MultipleInstances a handler failure blocks
\* nothing: whatever is unresolved or in flight, the broker may deliver every
\* waiting message, and a subscribed worker with nothing in hand can fetch as
\* soon as a message waits; a message whose handler failed and which is not
\* acknowledged yet is in flight or queued for redelivery.  (That a later message
\* is then handled and acknowledged before the failed one is handled again
\* is the reachable state C16_Witness.)
C16_FailureDoesNotBlock ==
  CreatedWithMode(MultipleInstances) =>
    /\ \A w \in Subscribed :
         /\ Capacity(BoundConsumer(wsub[w]).Config.MaxAckPending) >= Deliverable
         /\ (inbox[w] = << >> /\ Deliverable > 0) =>
              /\ ENABLED Fetch(w, 1)
              /\ ENABLED Fetch(w, 2)
    /\ \A s \in Unresolved :
         \/ s \in ackPending
         \/ \E k \in DOMAIN redeliver : redeliver[k] = s

\* The handler failed on the first message, the second was handled and
\* acknowledged, and then the first was handled again, successfully: both
\* are acknowledged, in another order than published.
C16_Witness ==
  /\ CreatedWithMode(MultipleInstances)
  /\ Len(published) = 2
  /\ Len(handled) = 3
  /\ handled[1] = [seq |-> 1, ok |-> FALSE]
  /\ handled[2] = [seq |-> 2, ok |-> TRUE]
  /\ handled[3] = [seq |-> 1, ok |-> TRUE]
  /\ acked = {1, 2}
  /\ Drained

(***************************************************************************)
(* Properties of redelivery (checked under SpecLive)                       *)
(***************************************************************************)
\* The handler has failed on message s and the worker has not settled it yet.
FailedInHand(s) ==
  \E w \in Workers : inbox[w] # << >> /\ Head(inbox[w]) = s /\ outcome[w] = "fail"

\* Message s is with a worker, delivered and not failed on in this delivery.
DeliveredAfresh(s) ==
  \E w \in Workers : \E k \in DOMAIN inbox[w] :
    inbox[w][k] = s /\ (k > 1 \/ outcome[w] # "fail")

\* The handler has succeeded on message s.
HandledOk(s) == \E i \in DOMAIN handled : handled[i].seq = s /\ handled[i].ok

\* A handler failure leaves every subscription as it is, a message whose
\* handler has succeeded is handled no more, and an acknowledged message is
\* neither in flight nor queued for redelivery.
RedeliverySafety ==
  /\ \A w \in Workers : (inbox[w] # << >>) => wstate[w] = "subscribed"
  /\ \A w \in Workers : (wsub[w] # NoSubscription) => wstate[w] = "subscribed"
  /\ \A i, j \in DOMAIN handled : (i < j /\ handled[i].ok) => handled[j].seq # handled[i].seq
  /\ acked \cap (ackPending \cup InHand) = {}
  /\ \A k \in DOMAIN redeliver : redeliver[k] \notin acked

\* C17: in either mode, with workers that keep running, a message whose
\* handler has failed is given back to the broker and eventually delivered
\* again, and a message whose handler has succeeded is eventually
\* acknowledged; a failure ends no subscription, and after its handler's
\* success a message is never delivered again.
C17_RedeliveryLiveness ==
  /\ []RedeliverySafety
  /\ \A s \in 1..MaxPublish :
       /\ FailedInHand(s) ~> DeliveredAfresh(s)
       /\ HandledOk(s) ~> (s \in acked)

\* A message failed on once, delivered again, handled and acknowledged, its
\* worker still subscribed.
C17_Witness ==
  /\ CreatedWithMode(SingleInstanceMessagesInOrder)
  /\ Len(handled) = 2
  /\ handled[1] = [seq |-> 1, ok |-> FALSE]
  /\ handled[2] = [seq |-> 1, ok |-> TRUE]
  /\ acked = {1}
  /\ Subscribed # {}

(***************************************************************************)
(* Properties of deduplication (checked under SpecDedup)                   *)
(***************************************************************************)
\* C8: a PublishMsg that repeats a msgID published within the current dedup
\* window returns no error (the broker answering) and stores nothing; the
\* stream holds a msgID once per window; and, on a consumer of either mode,
\* the handlers are given a message of the current window at most once per
\* msgID.
C8_Deduplication ==
  /\ (lastPub.called /\ lastPub.dup /\ ~lastPub.fault) =>
       /\ lastPub.err = Nil
       /\ Len(streamMsgs) = Len(lastPub.pre)
  /\ \A i, j \in DOMAIN streamMsgs :
       (i < j /\ streamMsgs[i].msgID = streamMsgs[j].msgID) => ~streamMsgs[i].inWindow
  /\ \A i, j \in DOMAIN handled :
       (/\ i # j
        /\ HandledMsg(i).inWindow /\ HandledMsg(j).inWindow)
         => HandledMsg(i).msgID # HandledMsg(j).msgID

C8_Witness ==
  /\ lastPub.called /\ lastPub.dup /\ ~lastPub.fault /\ lastPub.err = Nil
  /\ Len(published) = 2
  /\ published[1].msgID = published[2].msgID
  /\ published[1].inWindow
  /\ Len(streamMsgs) = 1
  /\ Drained
  /\ Len(handled) = 1

====
